---- MODULE Spec2Model ----
(***************************************************************************)
(* Model of llm-complete.js: the streaming output controller.  One Node.js *)
(* process, single-threaded: the async function processStream is the only  *)
(* coroutine; timers (progress indicator, paced tail emission, deferred    *)
(* dispose), terminal input events and uncaught exceptions interleave with *)
(* it at its await points.  Every action below is one event-loop turn.     *)
(***************************************************************************)
EXTENDS Integers, Sequences, FiniteSets, TLC

\* ---------------------------------------------------------------- bounds
MaxTokens == 3      \* tokens the source produces before it must end
MaxDepth == 2       \* largest value of the BUFFER environment variable
MaxUncaught == 1    \* uncaught exceptions raised by the environment
MaxFileLen == 5     \* bytes of the largest file handed to createWriteStream
MaxTokenLen == 2    \* characters of the longest token handed to the boundary test

\* ------------------------------------------------------------ characters
NL == "\n"
SP == " "

\* characters outside ASCII, each named by its code point
Ellipsis == "U+2026"
ACircumflex == "U+00E2"
Euro == "U+20AC"
BrokenBar == "U+00A6"

\* the character class of `boundaries` as the source file holds it: after
\* . ? ! come the three characters U+00E2 U+20AC U+00A6, not U+2026
BoundaryChars == {".", "?", "!", ACircumflex, Euro, BrokenBar, ":", ";", NL}

\* tokens and inputs are sequences of one-character strings
TokSpA == <<SP, "a">>
TokDot == <<".">>
TokNl == <<NL>>
TokDotNl == <<".", NL>>
TokenSet == {TokSpA, TokDot, TokNl, TokDotNl}
InputSet == {<<"a">>, <<"a", SP>>, <<"a", NL>>}

\* the documented example: the input, the lookahead depth and the tokens
StoryInput == <<"T", "h", "i", "s", SP, "i", "s", SP, "a", SP,
                "s", "t", "o", "r", "y", NL>>
StoryDepth == 3
StoryTokens == << <<"a", "b", "o", "u", "t">>,
                  <<SP, "s", "o", "m", "e", "t", "h", "i", "n", "g">>,
                  <<".">> >>

\* tokens handed to the boundary test, character by character
CharSet == {"a", SP, ".", "?", "!", Ellipsis, ACircumflex, Euro, BrokenBar,
            ":", ";", NL}
ProbeTokens == UNION {[1..n -> CharSet] : n \in 1..MaxTokenLen}

\* contents of the file handed to createWriteStream, byte by byte
FileBytes == {"a", NL}
FileSet == UNION {[1..n -> FileBytes] : n \in 0..MaxFileLen}

VARIABLES
    flag,            \* the command-line flag: "none", "-p", "-f" or "-a"
    hasArg,          \* whether an argument follows the flag
    isTTY,           \* process.stdout.isTTY
    pc,              \* position of the main script / processStream
    exitCode,        \* "running", "exit0" (process.exit()) or "exit1"
    busy,            \* state.busy
    killed,          \* state.killed
    flashOn,         \* state.flashOn
    flashLoop,       \* state.flashLoop: "null", "running" or "cleared"
    ttyWrite,        \* rl._ttyWrite: "tty" (original handler) or "noop"
    cursor,          \* "visible" or "hidden"
    outputFile,      \* "none" (undefined) or "open"
    input,           \* processStream's input after the newline trim
    bufferAhead,     \* process.env.BUFFER
    buffer,          \* processStream's buffer
    currentToken,    \* index of the last token received, -1 before the first
    currentIndex,    \* index of the next buffered token to write
    currentBoundary, \* buffer length just after the last boundary token, or -1
    tailIndex,       \* i of the tail loop
    sink,            \* everything written by writeToken, in order
    pendingDispose,  \* setTimeout(dispose, 800) timers not yet fired
    disposeCount,    \* calls of model.dispose()
    produced,        \* history: the raw tokens the source has delivered
    uncaught,        \* history: uncaught exceptions raised so far
    killedAt,        \* history: generated tokens in the sink when killed was set, -1 before
    killedInFill,    \* history: killed was set before the live loop released a token
    killedPc,        \* history: pc when killed was set, "none" before
    liveWritten,     \* history: generated tokens written by the live loop
    ended,           \* history: how processStream ended: "no", "natural", "killed", "error"
    scenario,        \* what the environment supplies: "any", the "story", or one "probe" token
    modelLoaded,     \* loadModel has resolved
    original,        \* history: the text handed to processStream, before the trim
    file             \* bytes of the input file, up to where appended output goes

vars == <<flag, hasArg, isTTY, pc, exitCode, busy, killed, flashOn, flashLoop,
          ttyWrite, cursor, outputFile, input, bufferAhead, buffer, currentToken,
          currentIndex, currentBoundary, tailIndex, sink, pendingDispose,
          disposeCount, produced, uncaught, killedAt, killedInFill, killedPc,
          liveWritten, ended, scenario, modelLoaded, original, file>>

cfgVars == <<flag, hasArg, isTTY, scenario>>
setupVars == <<cfgVars, modelLoaded>>
fileVars == <<original, file>>
streamVars == <<input, bufferAhead, buffer, currentToken, currentIndex,
                currentBoundary, tailIndex, produced, liveWritten>>
termVars == <<ttyWrite, cursor>>
flashVars == <<flashOn, flashLoop>>
killVars == <<killed, killedAt, killedInFill, killedPc>>

\* ------------------------------------------------------------- arguments
append == flag = "-a"
useFile == flag = "-f"
prompt == flag = "-p"

\* ------------------------------------------------------- pure functions
Max(a, b) == IF a >= b THEN a ELSE b
Min(a, b) == IF a <= b THEN a ELSE b

\* token.match(boundaries)
IsBoundary(token) == \E k \in 1..Len(token) : token[k] \in BoundaryChars

\* token.match(/\n/)
HasNewline(token) == \E k \in 1..Len(token) : token[k] = NL

\* input.replace(/[^\n](\n)$/, '')
TrimInput(in) ==
    IF Len(in) >= 2 /\ in[Len(in)] = NL /\ in[Len(in) - 1] # NL
    THEN SubSeq(in, 1, Len(in) - 2)
    ELSE in

\* createWriteStream's check of the last two bytes: eof = size - 2, nothing is
\* read unless eof > 1
IsSingleNewline(bytes) ==
    LET eof == Len(bytes) - 2
    IN  eof > 1 /\ bytes[eof + 1] # NL /\ bytes[eof + 2] = NL

\* the file after createWriteStream: inputFile.truncate(eof + 1)
Normalize(bytes) ==
    IF IsSingleNewline(bytes) THEN SubSeq(bytes, 1, Len(bytes) - 1) ELSE bytes

\* faulty variant: the leading space is taken off every token
FirstToken_EveryToken(ct, token, in) ==
    IF Len(token) > 0 /\ token[1] = SP /\ Len(in) > 0 /\ in[Len(in)] = SP
    THEN SubSeq(token, 2, Len(token))
    ELSE token

\* the first token loses its leading space when the input ends in a space
FirstToken(ct, token, in) ==
    IF ct < 0 /\ Len(token) > 0 /\ token[1] = SP /\ Len(in) > 0 /\ in[Len(in)] = SP
    THEN SubSeq(token, 2, Len(token))
    ELSE token

\* Array.prototype.slice(start, end) with 0-based, possibly negative, indices
JsSlice(s, start, end) ==
    LET n == Len(s)
        from == IF start < 0 THEN Max(n + start, 0) ELSE Min(start, n)
        to == IF end < 0 THEN Max(n + end, 0) ELSE Min(end, n)
    IN  SubSeq(s, from + 1, to)

\* while (buffer.slice(-1)[0]?.match(/\n/)) buffer.pop()
RECURSIVE PopNewlines(_)
PopNewlines(buf) ==
    IF Len(buf) > 0 /\ HasNewline(buf[Len(buf)])
    THEN PopNewlines(SubSeq(buf, 1, Len(buf) - 1))
    ELSE buf

\* faulty variant: the drain keeps everything up to the end of the buffer
DrainEnd_WholeBuffer(cb, buf) == Len(buf)

\* the end index handed to slice at drain
DrainEnd(cb, buf) == IF cb # 0 THEN cb ELSE Len(buf) - 1

\* faulty variant: the drain starts one token too late
DrainStart_SkipOne(ci) == ci + 1

\* the first index handed to slice at drain
DrainStart(ci) == ci

\* drop any trailing sentence fragment from the buffer
Drain(buf, ci, cb) ==
    IF cb # 0
    THEN PopNewlines(JsSlice(buf, DrainStart(ci), DrainEnd(cb, buf)))
    ELSE buf

\* ---------------------------------------------------------------- sink
InputEntry(text) == [kind |-> "input", text |-> text]
TokenEntry(text) == [kind |-> "token", text |-> text]
NewlineEntry == [kind |-> "newline", text |-> <<NL>>]

\* outputFile.write throws when createWriteStream left outputFile undefined
WriteThrows == append /\ outputFile = "none"

\* the sink after writeToken(entry)
WriteToken(s, entry) == IF WriteThrows THEN s ELSE Append(s, entry)

\* dispose timers that a failing writeToken starts through shutdown()
WriteShutdowns == IF WriteThrows THEN 1 ELSE 0

TokensOf(s) == SelectSeq(s, LAMBDA e : e.kind = "token")
Written == TokensOf(sink)

\* ------------------------------------------------------------ conditions
\* faulty variant: the token loop never looks at killed
LoopCancelled_Never == FALSE

\* faulty variant: a second ETX clears the flag again
Cancel_Toggle(k, b) == IF b THEN ~k ELSE k

\* faulty variant: ETX sets the flag whether or not a stream is running
Cancel_IgnoresBusy(k, b) == TRUE

\* state.killed after the data handler has seen ETX, from state.killed = k and
\* state.busy = b:   if (state.busy) { if (keyStr === '\x03') state.killed = true }
Cancel(k, b) == k \/ b

\* if (state.killed) return;   at the top of the token loop
LoopCancelled == killed

\* faulty variant: the tail loop never looks at killed
TailCancelled_Never == FALSE

\* if (state.killed) return;   at the top of the tail loop
TailCancelled == killed

\* faulty variant: the indicator is hidden one token after the first live write
HideIndicator_OneLate(ct) == ct = bufferAhead + 1 /\ ~append /\ isTTY

\* currentToken == bufferAhead && !append && process.stdout.isTTY
HideIndicator(ct) == ct = bufferAhead /\ ~append /\ isTTY

\* faulty variant: the live loop starts writing one token early
ReadyToEmit_OneEarly(ct) == ct >= bufferAhead - 1

\* faulty variant: the live loop starts writing one token late
ReadyToEmit_OneLate(ct) == ct > bufferAhead

\* currentToken >= bufferAhead
ReadyToEmit(ct) == ct >= bufferAhead

\* clearInterval(state.flashLoop)
Cleared(f) == IF f = "running" THEN "cleared" ELSE f

Running == exitCode = "running"

\* faulty variant: restoreInput switches between the two handlers
restoreInput_Toggle(term) ==
    IF term[1] = "noop" THEN <<"tty", "visible">> ELSE <<"noop", "hidden">>

\* blockInput(): the key handler and cursor visibility it leaves
blockInput(term) == <<"noop", "hidden">>

\* restoreInput(): the key handler and cursor visibility it leaves
restoreInput(term) == <<"tty", "visible">>

\* ----------------------------------------------------------- environment
\* the texts the prompt argument or the input file may hold
Inputs == IF scenario = "story" THEN {StoryInput} ELSE InputSet

\* the values of process.env.BUFFER
Depths == IF scenario = "story" THEN {StoryDepth} ELSE 0..MaxDepth

\* the tokens the source may deliver next
NextTokens ==
    IF scenario = "story"
    THEN IF Len(produced) < Len(StoryTokens)
         THEN {StoryTokens[Len(produced) + 1]}
         ELSE {}
    ELSE IF scenario = "probe"
    THEN IF produced = <<>> THEN ProbeTokens ELSE {}
    ELSE IF Len(produced) < MaxTokens THEN TokenSet ELSE {}

\* the source may end here: the story's source ends after its last token, or
\* earlier once the response callback has seen killed
SourceMayEnd ==
    scenario = "story" => (Len(produced) = Len(StoryTokens) \/ killed)

\* ------------------------------------------------------------------ Init
\* the process as the script starts, before loadModel resolves
Started ==
    /\ flag \in {"none", "-p", "-f", "-a"}
    /\ hasArg \in BOOLEAN
    /\ (flag = "none" => ~hasArg)
    /\ isTTY \in BOOLEAN
    /\ pc = "load"
    /\ exitCode = "running"
    /\ busy = FALSE
    /\ killed = FALSE
    /\ flashOn = FALSE
    /\ flashLoop = "null"
    /\ ttyWrite = "tty"
    /\ cursor = "visible"
    /\ outputFile = "none"
    /\ input = <<>>
    /\ bufferAhead = 0
    /\ buffer = <<>>
    /\ currentToken = -1
    /\ currentIndex = 0
    /\ currentBoundary = -1
    /\ tailIndex = 0
    /\ sink = <<>>
    /\ pendingDispose = 0
    /\ disposeCount = 0
    /\ produced = <<>>
    /\ uncaught = 0
    /\ killedAt = -1
    /\ killedInFill = FALSE
    /\ killedPc = "none"
    /\ liveWritten = 0
    /\ ended = "no"
    /\ modelLoaded = FALSE
    /\ original = <<>>
    /\ file = <<>>

Init == scenario = "any" /\ Started

\* ------------------------------------------------------------- shutdown
\* faulty variant: shutdown() while busy starts no dispose timer
Shutdown_NoTimer(b, pd, k, tw, cur) ==
    /\ pendingDispose' = pd
    /\ disposeCount' = disposeCount
    /\ exitCode' = exitCode
    /\ ttyWrite' = tw
    /\ cursor' = cur

\* shutdown() called k times in one turn with state.busy = b: each call starts a
\* dispose timer while busy, otherwise dispose() runs at once (model.dispose(),
\* restoreInput(), process.exit()).  tw and cur are the terminal state the turn
\* has reached when no dispose runs; pd counts the timers already pending.
Shutdown(b, pd, k, tw, cur) ==
    IF b \/ k = 0
    THEN /\ pendingDispose' = pd + k
         /\ disposeCount' = disposeCount
         /\ exitCode' = exitCode
         /\ ttyWrite' = tw
         /\ cursor' = cur
    ELSE /\ pendingDispose' = pd
         /\ disposeCount' = disposeCount + 1
         /\ exitCode' = "exit0"
         /\ ttyWrite' = restoreInput(<<tw, cur>>)[1]
         /\ cursor' = restoreInput(<<tw, cur>>)[2]

\* faulty variant: proccessingStopped writes no newline
FinalNewline_Missing(s) == s

\* the sink after proccessingStopped's writeToken('\n')
FinalNewline(s) == WriteToken(s, NewlineEntry)

\* proccessingStopped(), reached through processStream's finally block, with the
\* sink s and pd dispose timers left by the turn so far
proccessingStopped(s, pd, how) ==
    /\ sink' = FinalNewline(s)
    /\ flashLoop' = Cleared(flashLoop)
    /\ flashOn' = FALSE
    /\ LET term == restoreInput(<<ttyWrite, cursor>>)
       IN  Shutdown(busy, pd, WriteShutdowns + 1, term[1], term[2])
    /\ pc' = "stopped"
    /\ ended' = how

\* ------------------------------------------------------ startup actions
\* lines 41-48: loadModel resolves
LoadModel ==
    /\ Running /\ pc = "load"
    /\ modelLoaded' = TRUE
    /\ pc' = "validate"
    /\ UNCHANGED <<cfgVars, fileVars, exitCode, busy, killVars, flashVars, termVars,
                   outputFile, streamVars, sink, pendingDispose, disposeCount,
                   uncaught, ended>>

\* lines 71-82: the file flags need a path
ValidateArgs ==
    /\ Running /\ pc = "validate"
    /\ IF (useFile \/ append) /\ ~hasArg
       THEN pc' = pc /\ exitCode' = "exit1"
       ELSE pc' = (IF useFile \/ append THEN "open" ELSE "init") /\ exitCode' = exitCode
    /\ UNCHANGED <<setupVars, fileVars, busy, killVars, flashVars, termVars, outputFile,
                   streamVars, sink, pendingDispose, disposeCount, uncaught, ended>>

\* lines 85-92: openFile resolves
OpenFileOk ==
    /\ Running /\ pc = "open"
    /\ pc' = "init"
    /\ UNCHANGED <<setupVars, fileVars, exitCode, busy, killVars, flashVars, termVars, outputFile,
                   streamVars, sink, pendingDispose, disposeCount, uncaught, ended>>

\* lines 88-91: openFile rejects
OpenFileFails ==
    /\ Running /\ pc = "open"
    /\ exitCode' = "exit1"
    /\ UNCHANGED <<setupVars, fileVars, pc, busy, killVars, flashVars, termVars, outputFile,
                   streamVars, sink, pendingDispose, disposeCount, uncaught, ended>>

\* processStream(text) up to its first await, for the sinks that are not the
\* appended file: busy, the newline trim, the echo of the input, the stream
BeginStream(text) ==
    /\ busy' = TRUE
    /\ input' = TrimInput(text)
    /\ original' = text
    /\ sink' = WriteToken(sink, InputEntry(TrimInput(text)))
    /\ bufferAhead' \in Depths
    /\ pc' = "loop"
    /\ UNCHANGED <<pendingDispose, disposeCount, exitCode>>

\* lines 330-343: blockInput(), startIndicating(), then either the file read
\* is started or processStream(directInput) runs to its first await
Initialize ==
    /\ Running /\ pc = "init"
    /\ ttyWrite' = blockInput(<<ttyWrite, cursor>>)[1]
    /\ cursor' = blockInput(<<ttyWrite, cursor>>)[2]
    /\ flashLoop' = "running"
    /\ IF useFile \/ append
       THEN /\ pc' = "reading"
            /\ UNCHANGED <<busy, input, original, sink, bufferAhead,
                           pendingDispose, disposeCount, exitCode>>
       ELSE IF prompt /\ ~hasArg
       THEN \* directInput is undefined: input.replace throws before the try,
            \* the rejection reaches the uncaughtException handler with busy set
            /\ busy' = TRUE
            /\ pc' = "failed"
            /\ pendingDispose' = pendingDispose + 1
            /\ UNCHANGED <<input, original, sink, bufferAhead, disposeCount,
                           exitCode>>
       ELSE \E text \in (IF prompt THEN Inputs ELSE {<<>>}) : BeginStream(text)
    /\ UNCHANGED <<setupVars, file, killVars, flashOn, outputFile, buffer, currentToken,
                   currentIndex, currentBoundary, tailIndex, produced, liveWritten,
                   uncaught, ended>>

\* lines 335-336: readFile resolves and processStream(input) runs to its first await
ReadFileOk ==
    /\ Running /\ pc = "reading"
    /\ \E text \in Inputs :
         /\ file' = text
         /\ IF append
            THEN /\ busy' = TRUE
                 /\ input' = TrimInput(text)
                 /\ original' = text
                 /\ pc' = "cws"
                 /\ UNCHANGED <<sink, bufferAhead, pendingDispose, disposeCount,
                                exitCode>>
            ELSE BeginStream(text)
    /\ UNCHANGED <<setupVars, killVars, flashVars, termVars, outputFile, buffer,
                   currentToken, currentIndex, currentBoundary, tailIndex, produced,
                   liveWritten, uncaught, ended>>

\* lines 335-336 and 16-23: readFile rejects, nothing handles the rejection, the
\* uncaughtException handler finds busy false and calls process.exit()
ReadFileFails ==
    /\ Running /\ pc = "reading"
    /\ exitCode' = "exit0"
    /\ UNCHANGED <<setupVars, fileVars, pc, busy, killVars, flashVars, termVars, outputFile,
                   streamVars, sink, pendingDispose, disposeCount, uncaught, ended>>

\* lines 171-181: createWriteStream succeeds, the completion stream is created
CreateWriteStreamOk ==
    /\ Running /\ pc = "cws"
    /\ file' = Normalize(file)
    /\ outputFile' = "open"
    /\ bufferAhead' \in Depths
    /\ pc' = "loop"
    /\ UNCHANGED <<setupVars, original, exitCode, busy, killVars, flashVars, termVars, input,
                   buffer, currentToken, currentIndex, currentBoundary, tailIndex,
                   produced, liveWritten, sink, pendingDispose, disposeCount,
                   uncaught, ended>>

\* lines 182-185: createWriteStream catches an error and calls shutdown();
\* processStream goes on with outputFile undefined
CreateWriteStreamFails ==
    /\ Running /\ pc = "cws"
    /\ Shutdown(busy, pendingDispose, 1, ttyWrite, cursor)
    /\ bufferAhead' \in Depths
    /\ pc' = "loop"
    /\ UNCHANGED <<setupVars, fileVars, busy, killVars, flashVars, outputFile, input, buffer,
                   currentToken, currentIndex, currentBoundary, tailIndex, produced,
                   liveWritten, sink, uncaught, ended>>

\* ------------------------------------------------------- stream actions
\* lines 257-287: one turn of the for-await loop, the source having delivered tok
TokenArrives ==
    /\ Running /\ pc = "loop"
    /\ \E tok \in NextTokens :
        /\ produced' = Append(produced, tok)
        /\ IF LoopCancelled
           THEN \* return, then the finally block
                /\ proccessingStopped(sink, pendingDispose, "killed")
                /\ UNCHANGED <<buffer, currentToken, currentIndex, currentBoundary,
                               liveWritten>>
           ELSE LET token == FirstToken(currentToken, tok, input)
                    buf == Append(buffer, token)
                    ct == currentToken + 1
                    emit == ReadyToEmit(ct)
                IN  /\ buffer' = buf
                    /\ currentToken' = ct
                    /\ currentBoundary' =
                           (IF IsBoundary(token) THEN Len(buf) ELSE currentBoundary)
                    /\ flashLoop' =
                           (IF HideIndicator(ct) THEN Cleared(flashLoop) ELSE flashLoop)
                    /\ flashOn' = (IF HideIndicator(ct) THEN FALSE ELSE flashOn)
                    /\ sink' = (IF emit
                                THEN WriteToken(sink, TokenEntry(buf[currentIndex + 1]))
                                ELSE sink)
                    /\ liveWritten' =
                           (IF emit /\ ~WriteThrows THEN liveWritten + 1 ELSE liveWritten)
                    /\ currentIndex' = (IF emit THEN currentIndex + 1 ELSE currentIndex)
                    /\ Shutdown(busy, pendingDispose,
                                IF emit THEN WriteShutdowns ELSE 0, ttyWrite, cursor)
                    /\ UNCHANGED <<pc, ended>>
    /\ UNCHANGED <<setupVars, fileVars, busy, killVars, outputFile, input, bufferAhead, tailIndex,
                   uncaught>>

\* the tail loop's head, reached after the drain and after each paced write:
\* the loop ends, or is cancelled, or the next 200 ms timer is started
TailStep(buf, i, s, pd) ==
    IF i >= Len(buf)
    THEN proccessingStopped(s, pd, "natural")
    ELSE IF TailCancelled
    THEN proccessingStopped(s, pd, "killed")
    ELSE /\ pc' = "tailwait"
         /\ sink' = s
         /\ Shutdown(busy, pd, 0, ttyWrite, cursor)
         /\ UNCHANGED <<flashVars, ended>>

\* lines 287-300: the source signals the end of the stream; the buffer is
\* drained and the tail loop entered
StreamEnds ==
    /\ Running /\ pc = "loop"
    /\ SourceMayEnd
    /\ buffer' = Drain(buffer, currentIndex, currentBoundary)
    /\ tailIndex' = 0
    /\ TailStep(buffer', 0, sink, pendingDispose)
    /\ UNCHANGED <<setupVars, fileVars, busy, killVars, outputFile, input, bufferAhead,
                   currentToken, currentIndex, currentBoundary, produced, liveWritten,
                   uncaught>>

\* faulty variant: the error handler alone, without the finally block
StreamThrows_NoFinally ==
    /\ Running /\ pc = "loop"
    /\ pc' = "stopped"
    /\ ended' = "error"
    /\ pendingDispose' = pendingDispose + 1
    /\ UNCHANGED <<setupVars, fileVars, exitCode, busy, killVars, flashVars,
                   termVars, outputFile, streamVars, sink, disposeCount, uncaught>>

\* lines 308-312: the source throws; handleProcessingError calls shutdown(), the
\* finally block calls proccessingStopped()
StreamThrows ==
    /\ Running /\ pc = "loop"
    /\ proccessingStopped(sink, pendingDispose + 1, "error")
    /\ UNCHANGED <<setupVars, fileVars, busy, killVars, outputFile, streamVars, uncaught>>

\* lines 301-306: a paced timer fires, writes buffer[i] and resumes the tail loop
TailTimer ==
    /\ Running /\ pc = "tailwait"
    /\ tailIndex' = tailIndex + 1
    /\ TailStep(buffer, tailIndex + 1,
                WriteToken(sink, TokenEntry(buffer[tailIndex + 1])),
                pendingDispose + WriteShutdowns)
    /\ UNCHANGED <<setupVars, fileVars, busy, killVars, outputFile, input, bufferAhead, buffer,
                   currentToken, currentIndex, currentBoundary, produced, liveWritten,
                   uncaught>>

\* -------------------------------------------------- environment actions
\* lines 133-142: the byte ETX arrives on the terminal input
CtrlC ==
    /\ Running /\ pc \notin {"load", "validate", "open"}
    /\ killed' = Cancel(killed, busy)
    /\ killedAt' = (IF busy /\ ~killed THEN Len(Written) ELSE killedAt)
    /\ killedInFill' = (IF busy /\ ~killed
                        THEN pc \in {"cws", "loop"} /\ currentIndex = 0
                        ELSE killedInFill)
    /\ killedPc' = (IF busy /\ ~killed THEN pc ELSE killedPc)
    /\ UNCHANGED <<setupVars, fileVars, pc, exitCode, busy, flashVars, termVars, outputFile,
                   streamVars, sink, pendingDispose, disposeCount, uncaught, ended>>

\* lines 133-142: any other input arrives
OtherKey ==
    /\ Running /\ pc \notin {"load", "validate", "open"}
    /\ UNCHANGED vars

\* lines 153-161: the progress indicator's interval fires
Tick ==
    /\ Running /\ flashLoop = "running"
    /\ flashOn' = ~flashOn
    /\ UNCHANGED <<setupVars, fileVars, pc, exitCode, busy, killVars, flashLoop, termVars,
                   outputFile, streamVars, sink, pendingDispose, disposeCount,
                   uncaught, ended>>

\* lines 16-23: an uncaught exception reaches the handler
UncaughtException ==
    /\ Running /\ uncaught < MaxUncaught
    /\ uncaught' = uncaught + 1
    /\ IF busy
       THEN Shutdown(busy, pendingDispose, 1, ttyWrite, cursor)
       ELSE /\ exitCode' = "exit0"
            /\ UNCHANGED <<pendingDispose, disposeCount, termVars>>
    /\ UNCHANGED <<setupVars, fileVars, pc, busy, killVars, flashVars, outputFile, streamVars,
                   sink, ended>>

\* lines 212 and 219-223: a dispose timer fires
DisposeTimer ==
    /\ Running /\ pendingDispose > 0
    /\ pendingDispose' = pendingDispose - 1
    /\ disposeCount' = disposeCount + 1
    /\ ttyWrite' = restoreInput(<<ttyWrite, cursor>>)[1]
    /\ cursor' = restoreInput(<<ttyWrite, cursor>>)[2]
    /\ exitCode' = "exit0"
    /\ UNCHANGED <<setupVars, fileVars, pc, busy, killVars, flashVars, outputFile, streamVars,
                   sink, uncaught, ended>>

Next ==
    \/ LoadModel
    \/ ValidateArgs
    \/ OpenFileOk
    \/ OpenFileFails
    \/ Initialize
    \/ ReadFileOk
    \/ ReadFileFails
    \/ CreateWriteStreamOk
    \/ CreateWriteStreamFails
    \/ TokenArrives
    \/ StreamEnds
    \/ StreamThrows
    \/ TailTimer
    \/ CtrlC
    \/ OtherKey
    \/ Tick
    \/ UncaughtException
    \/ DisposeTimer

Spec == Init /\ [][Next]_vars

\* createWriteStream settles, one way or the other
NextFile == CreateWriteStreamOk \/ CreateWriteStreamFails

\* ------------------------------------------------------------ scheduling
\* the script runs on and the file system and the model loader answer its
\* awaits, the event loop runs every timer that is due, and the finite token
\* source delivers its next token, ends or throws
Startup ==
    \/ LoadModel
    \/ ValidateArgs
    \/ OpenFileOk
    \/ OpenFileFails
    \/ Initialize
    \/ ReadFileOk
    \/ ReadFileFails

StreamStep == TokenArrives \/ StreamEnds \/ StreamThrows

Fairness ==
    /\ WF_vars(Startup)
    /\ WF_vars(NextFile)
    /\ WF_vars(StreamStep)
    /\ WF_vars(TailTimer)
    /\ WF_vars(DisposeTimer)

FairSpec == Spec /\ Fairness

\* ------------------------------------------------- the documented example
\* the same program, the environment supplying the story: its input, its
\* lookahead depth and its three tokens
InitStory == scenario = "story" /\ Started

SpecStory == InitStory /\ [][Next]_vars

\* ------------------------------------------------------ createWriteStream
\* llm-complete -a <path>, stopped at `await createWriteStream()` (line 237),
\* the file read at line 335 holding any of the contents of FileSet
InitFile ==
    /\ flag = "-a"
    /\ hasArg = TRUE
    /\ isTTY \in BOOLEAN
    /\ scenario = "any"
    /\ pc = "cws"
    /\ exitCode = "running"
    /\ busy = TRUE
    /\ killed = FALSE
    /\ flashOn = FALSE
    /\ flashLoop = "running"
    /\ ttyWrite = "noop"
    /\ cursor = "hidden"
    /\ outputFile = "none"
    /\ file \in FileSet
    /\ original = file
    /\ input = TrimInput(file)
    /\ bufferAhead = 0
    /\ buffer = <<>>
    /\ currentToken = -1
    /\ currentIndex = 0
    /\ currentBoundary = -1
    /\ tailIndex = 0
    /\ sink = <<>>
    /\ pendingDispose = 0
    /\ disposeCount = 0
    /\ produced = <<>>
    /\ uncaught = 0
    /\ killedAt = -1
    /\ killedInFill = FALSE
    /\ killedPc = "none"
    /\ liveWritten = 0
    /\ ended = "no"
    /\ modelLoaded = TRUE

SpecFile == InitFile /\ [][NextFile]_vars

\* ------------------------------------------------------- the boundary test
\* llm-complete -p "a", waiting in the for-await loop for its first token,
\* which is any of ProbeTokens
InitProbe ==
    /\ flag = "-p"
    /\ hasArg = TRUE
    /\ isTTY \in BOOLEAN
    /\ scenario = "probe"
    /\ pc = "loop"
    /\ exitCode = "running"
    /\ busy = TRUE
    /\ killed = FALSE
    /\ flashOn = FALSE
    /\ flashLoop = "running"
    /\ ttyWrite = "noop"
    /\ cursor = "hidden"
    /\ outputFile = "none"
    /\ file = <<>>
    /\ original = <<"a">>
    /\ input = <<"a">>
    /\ bufferAhead \in 0..MaxDepth
    /\ buffer = <<>>
    /\ currentToken = -1
    /\ currentIndex = 0
    /\ currentBoundary = -1
    /\ tailIndex = 0
    /\ sink = <<InputEntry(<<"a">>)>>
    /\ pendingDispose = 0
    /\ disposeCount = 0
    /\ produced = <<>>
    /\ uncaught = 0
    /\ killedAt = -1
    /\ killedInFill = FALSE
    /\ killedPc = "none"
    /\ liveWritten = 0
    /\ ended = "no"
    /\ modelLoaded = TRUE

NextProbe == TokenArrives

SpecProbe == InitProbe /\ [][NextProbe]_vars

\* ============================================================== claims
\* the i-th token the source delivered, as processStream buffers it
SourceToken(i) == IF i = 1 THEN FirstToken(-1, produced[1], input) ELSE produced[i]

\* a run that ended naturally: no cancellation, no error of any kind
NaturalEnd == ended = "natural" /\ ~killed /\ uncaught = 0 /\ ~WriteThrows

\* the tokens at positions from+1..to of the source all carry a newline
AllNewlines(from, to) == \A j \in (from + 1)..to : HasNewline(SourceToken(j))

C2_AllEmitted ==
    (NaturalEnd /\ currentBoundary = -1) =>
        /\ Len(Written) = Len(produced)
        /\ \A j \in 1..Len(produced) : Written[j].text = SourceToken(j)

\* C3 (as claimed): once killed is true no generated token is written any more.
C3_NoWriteAfterKill == killed => Len(Written) = killedAt

\* C3 (amended): once killed is true no generated token is written by the live
\* loop, and the tail phase writes at most one more: the token whose paced
\* timer was already pending when killed was set.
C3_AtMostPendingWrite ==
    killed => /\ Len(Written) <= killedAt + 1
              /\ (Len(Written) = killedAt + 1 => killedPc = "tailwait")

\* C3 witness: killed during a paced delay, the pending token written, the run
\* stopped with tokens of the tail unwritten
C3_Witness ==
    /\ killed /\ killedPc = "tailwait"
    /\ Len(Written) = killedAt + 1
    /\ ended = "killed"
    /\ tailIndex < Len(buffer)

C5_SinkIsPrefix ==
    /\ Len(Written) <= Len(produced)
    /\ \A j \in 1..Len(Written) : Written[j].text = SourceToken(j)

\* C5 witness: tokens written by the live loop and then by the tail phase
C5_Witness ==
    /\ liveWritten >= 1
    /\ Len(Written) >= liveWritten + 2
    /\ Written[1].text # Written[2].text

\* C6 (as claimed): model.dispose() is never called while the token loop is
\* still consuming the stream.
C6_NoDisposeDuringStream == disposeCount > 0 => pc # "loop"

\* C7 (as claimed): whenever the process has ended after the model was loaded,
\* the model has been disposed exactly once.
C7_DisposedExactlyOnce == (exitCode # "running" /\ modelLoaded) => disposeCount = 1

\* C8 (as claimed): whenever the process has ended after blockInput(), the
\* terminal is back in passthrough with the cursor visible.
C8_TerminalRestored ==
    (exitCode # "running" /\ pc \notin {"load", "validate", "open", "init"}) =>
        (ttyWrite = "tty" /\ cursor = "visible")

\* C9: once processStream has ended (naturally, cancelled, or by a stream error)
\* the last thing in the sink is the final newline, written once, after every
\* generated token and before the model is disposed; the tokens stay in the sink.
C9_FinalNewline ==
    (ended # "no" /\ ~WriteThrows) =>
        /\ Len(sink) >= 1
        /\ sink[Len(sink)] = NewlineEntry
        /\ \A j \in 1..(Len(sink) - 1) : sink[j].kind # "newline"
        /\ Len(Written) >= liveWritten

\* C9 witness: a stream error after partial output, newline written, model disposed
C9_Witness ==
    /\ ended = "error"
    /\ Len(Written) >= 1
    /\ sink[Len(sink)] = NewlineEntry
    /\ disposeCount = 1

\* C10: on the interactive terminal (not append mode), once the live loop has
\* written a token the progress indicator's timer is not running any more.
C10_IndicatorStoppedBeforeLive ==
    (isTTY /\ ~append /\ liveWritten >= 1) => flashLoop # "running"

\* C10 witness: the first live token just written to the terminal, stream going on
C10_Witness ==
    /\ isTTY /\ ~append
    /\ liveWritten = 1
    /\ pc = "loop"
    /\ flashLoop = "cleared"

\* the bytes of a file end in exactly one newline: the last byte is a newline
\* and the byte before it is not
EndsInOneNewline(bytes) ==
    Len(bytes) >= 2 /\ bytes[Len(bytes)] = NL /\ bytes[Len(bytes) - 1] # NL

\* C11 (as claimed): once createWriteStream has opened the append stream, a
\* file that ended in exactly one newline byte is one byte shorter, and every
\* other file (two trailing newlines, or no trailing newline) is unchanged.
C11_Normalized ==
    (append /\ outputFile = "open") =>
        IF EndsInOneNewline(original)
        THEN file = SubSeq(original, 1, Len(original) - 1)
        ELSE file = original

Whitespace == {SP, NL, "\t"}
EndsIn(text, chars) == Len(text) > 0 /\ text[Len(text)] \in chars
StartsWith(text, chars) == Len(text) > 0 /\ text[1] \in chars

\* C12 (as claimed): while the token loop runs, the first buffered token is the
\* first token of the source without its first character if the original input
\* ends in a whitespace character and that token begins with one, and is the
\* token itself otherwise; every later buffered token is the source's token.
C12_WhitespaceStripped ==
    pc = "loop" =>
        \A j \in 1..Len(buffer) :
            buffer[j] = IF /\ j = 1
                           /\ EndsIn(original, Whitespace)
                           /\ StartsWith(produced[1], Whitespace)
                        THEN Tail(produced[1])
                        ELSE produced[j]

\* C12 (amended): the same with the space character alone, and with the input
\* as it is after the trim of its single trailing newline.
C12_SpaceStripped ==
    pc = "loop" =>
        \A j \in 1..Len(buffer) :
            buffer[j] = IF /\ j = 1
                           /\ EndsIn(input, {SP})
                           /\ StartsWith(produced[1], {SP})
                        THEN Tail(produced[1])
                        ELSE produced[j]

\* the first token lost its space, a later token kept its own
C12_Witness ==
    /\ pc = "loop"
    /\ Len(buffer) >= 2
    /\ buffer[1] # produced[1]
    /\ StartsWith(buffer[2], {SP})

\* the characters of a sequence of texts, in order
RECURSIVE Concat(_)
Concat(texts) == IF texts = <<>> THEN <<>> ELSE Head(texts) \o Concat(Tail(texts))

\* the total text in the sink: what writeToken wrote, after the file's own
\* bytes when the sink is the appended file
SinkText ==
    LET written == Concat([k \in 1..Len(sink) |-> sink[k].text])
    IN  IF append THEN file \o written ELSE written

\* "This is a story about something." followed by one newline
StoryOutput ==
    SubSeq(StoryInput, 1, Len(StoryInput) - 1) \o <<SP>> \o Concat(StoryTokens) \o <<NL>>

\* the story's run: its input was read, its three tokens came, the run ended
\* naturally
StoryRun ==
    /\ scenario = "story"
    /\ original = StoryInput
    /\ produced = StoryTokens
    /\ NaturalEnd

\* C13 (as claimed): after the story's run the boundary is recorded after the
\* third token ".", the three tokens were all written, and the total text in
\* the sink is "This is a story about something." and one newline.
C13_StoryText ==
    StoryRun =>
        /\ currentBoundary = Len(StoryTokens)
        /\ Written = [k \in 1..Len(StoryTokens) |-> TokenEntry(StoryTokens[k])]
        /\ SinkText = StoryOutput

\* the model is disposed and the process has exited
Terminated == exitCode # "running" /\ disposeCount = 1

\* the states of a run, in order: idle (0), busy (1), killed or completed (2),
\* shutting down (3: shutdown() has been called or processStream has ended),
\* terminated (4)
Phase ==
    IF exitCode # "running" THEN 4
    ELSE IF pendingDispose > 0 \/ pc \in {"stopped", "failed"} THEN 3
    ELSE IF busy /\ (killed \/ pc = "tailwait") THEN 2
    ELSE IF busy THEN 1
    ELSE 0

C15_KilledOneWay == [][killed => killed']_vars

\* a cancelled run at its end: killed was set in the token loop and is still
\* set after the process has exited
C15_Witness == killed /\ killedPc = "loop" /\ exitCode = "exit0"

\* the run state and the sink, without the flag killed and its history
RunState ==
    <<pc, exitCode, busy, flashVars, termVars, outputFile, streamVars, sink,
      pendingDispose, disposeCount, file, original, setupVars, uncaught, ended>>

\* C16: a step that changes killed happens only while busy, sets it, and
\* changes nothing else; while input is blocked, an ETX event sets killed if
\* busy and leaves it as it was if not, any other input event leaves killed as
\* it was, and neither changes the rest of the run state or the sink.
C16_OnlyEtxWhileBusy ==
    [][ /\ (killed' # killed => (busy /\ killed' /\ UNCHANGED RunState))
        /\ ((ttyWrite = "noop" /\ CtrlC) =>
               (killed' = (killed \/ busy) /\ UNCHANGED RunState))
        /\ ((ttyWrite = "noop" /\ OtherKey) =>
               (killed' = killed /\ UNCHANGED RunState)) ]_vars

\* ETX has set killed while the token loop runs behind the blocked input
C16_Witness == killed /\ killedPc = "loop" /\ pc = "loop" /\ ttyWrite = "noop"

\* the original key handler installed, the cursor visible
Passthrough == <<"tty", "visible">>

\* C17: from the terminal of any reachable state, restoreInput applied twice
\* gives what it gives applied once, and applied to a passthrough terminal it
\* changes nothing; once processStream has ended the terminal is in
\* passthrough after proccessingStopped's call and stays so after dispose's.
C17_RestoreIdempotent ==
    LET term == <<ttyWrite, cursor>>
    IN  /\ restoreInput(restoreInput(term)) = restoreInput(term)
        /\ (term = Passthrough => restoreInput(term) = term)
        /\ (pc = "stopped" => term = Passthrough)

\* restoreInput has run twice: in proccessingStopped, then in dispose
C17_Witness ==
    pc = "stopped" /\ disposeCount = 1 /\ <<ttyWrite, cursor>> = Passthrough

\* the process has exited on an input error: a file flag without a path, or a
\* file that could not be opened
InputError == exitCode = "exit1"

\* C18 (as claimed): when the process exits on an input error, the exit code is
\* not zero, busy was never set, no token stream was opened, and no model has
\* been allocated.
C18_FatalBeforeModel ==
    InputError =>
        /\ pc \in {"validate", "open"}
        /\ ~busy
        /\ produced = <<>> /\ bufferAhead = 0 /\ sink = <<>>
        /\ ~modelLoaded

\* writes of generated tokens attempted so far on a sink whose writes throw:
\* the live loop advances currentIndex, the tail loop tailIndex, at each one
\* (the sink is the append file and createWriteStream failed, so each throws)
FailedWrites == IF WriteThrows THEN currentIndex + tailIndex ELSE 0

\* C19 (as claimed): on a sink whose writes throw, the first failed write is
\* the last one attempted, and the token loop consumes nothing after it: the
\* source has delivered just the tokens that led to that first write.
C19_StopsAtFirstWriteError ==
    FailedWrites >= 1 =>
        /\ FailedWrites = 1
        /\ (currentIndex >= 1 => Len(produced) = bufferAhead + 1)

\* C20: once the source has thrown, the buffer is left undrained and no token
\* beyond those of the live loop is ever written, the final newline is the
\* last thing in the sink, the indicator is stopped, the terminal is in
\* passthrough, and the model is not disposed at once: dispose timers are
\* pending until one fires, disposes the model once and ends the process.
C20_StreamErrorShutsDown ==
    ended = "error" =>
        /\ pc = "stopped"
        /\ Len(buffer) = Len(produced) /\ tailIndex = 0
        /\ Len(Written) = liveWritten
        /\ (~WriteThrows => (sink # <<>> /\ sink[Len(sink)] = NewlineEntry))
        /\ flashLoop # "running" /\ ~flashOn
        /\ <<ttyWrite, cursor>> = Passthrough
        /\ IF exitCode = "running"
           THEN disposeCount = 0 /\ pendingDispose >= 2
           ELSE disposeCount = 1 /\ exitCode = "exit0"

\* the source threw after a token had been written and with tokens still in
\* the buffer; the newline followed, then the model was disposed
C20_Witness ==
    /\ ended = "error"
    /\ liveWritten >= 1
    /\ Len(buffer) > liveWritten
    /\ sink[Len(sink)] = NewlineEntry
    /\ disposeCount = 1

\* the characters the boundary detector is said to look for
ClaimedBoundaries == {".", "?", "!", Ellipsis, ":", ";", NL}

\* C21 (as claimed): the first token of a stream is recorded as a boundary
\* if and only if one of its characters, at any position, is one of
\* . ? ! U+2026 : ; or newline.
C21_BoundaryDetected ==
    (pc = "loop" /\ Len(produced) = 1) =>
        (currentBoundary = 1 <=>
            \E k \in 1..Len(produced[1]) : produced[1][k] \in ClaimedBoundaries)

\* C22: while the token loop runs, currentIndex never passes the end of the
\* buffer, and once the loop has written a token at least bufferAhead buffered
\* tokens lie behind the last one written; so until the stream ends the sink
\* never holds any of the last bufferAhead tokens produced.
C22_LookaheadHeld ==
    pc = "loop" =>
        /\ currentIndex <= Len(buffer)
        /\ (currentIndex >= 1 => Len(buffer) - currentIndex >= bufferAhead)
        /\ Len(Written) <= Max(0, Len(produced) - bufferAhead)

\* the live loop has written two tokens with a lookahead of at least one
C22_Witness ==
    /\ pc = "loop"
    /\ bufferAhead >= 1
    /\ liveWritten >= 2
    /\ Len(buffer) - currentIndex = bufferAhead

\* C23 (as claimed): while the token loop runs on a sink that accepts writes,
\* a generated token is in the sink if and only if the source has produced at
\* least bufferAhead tokens (and at least one).
C23_FirstAtDepth ==
    (pc = "loop" /\ ~WriteThrows) =>
        (Len(Written) >= 1 <=>
            (Len(produced) >= bufferAhead /\ Len(produced) >= 1))

\* C23 (amended): while the token loop runs on a sink that accepts writes, a
\* generated token is in the sink if and only if the source has produced at
\* least bufferAhead + 1 tokens, and the sink then holds all the tokens
\* produced but the last bufferAhead.
C23_FirstAfterDepth ==
    (pc = "loop" /\ ~WriteThrows) =>
        /\ (Len(Written) >= 1 <=> Len(produced) >= bufferAhead + 1)
        /\ Len(Written) = Max(0, Len(produced) - bufferAhead)

\* the first token has just been written, on the arrival of token
\* bufferAhead + 1, with the largest lookahead
C23_Witness ==
    /\ pc = "loop"
    /\ bufferAhead = MaxDepth
    /\ Len(produced) = bufferAhead + 1
    /\ Len(Written) = 1

\* C24 (as claimed): busy is false before processStream starts, true while the
\* stream is consumed (from processStream's start to the end of the tail
\* loop), and false again once processStream has ended.
C24_BusyWhileConsuming ==
    /\ (pc \in {"load", "validate", "open", "init", "reading"} => ~busy)
    /\ (pc \in {"cws", "loop", "tailwait"} => busy)
    /\ (ended # "no" => ~busy)

\* every token the source delivered, as processStream buffered it
AllTokens == [i \in 1..Len(produced) |-> SourceToken(i)]

\* a token that consists of newline characters only
StandaloneNewline(token) ==
    Len(token) > 0 /\ \A k \in 1..Len(token) : token[k] = NL

\* a sequence of tokens without its trailing standalone newline tokens
RECURSIVE StripStandalone(_)
StripStandalone(toks) ==
    IF Len(toks) > 0 /\ StandaloneNewline(toks[Len(toks)])
    THEN StripStandalone(SubSeq(toks, 1, Len(toks) - 1))
    ELSE toks

\* the stream ended and the buffer was drained up to a recorded boundary
Drained ==
    /\ pc = "tailwait" \/ (pc = "stopped" /\ ended = "natural")
    /\ currentBoundary >= 1

\* C25 (as claimed): after the drain, the buffer holds the un-emitted tokens up
\* to the last boundary, without the standalone newline tokens at their end
\* and nothing else removed: a trailing ".\n" stays, inner newlines stay.
C25_OnlyStandaloneStripped ==
    Drained =>
        buffer = StripStandalone(SubSeq(AllTokens, currentIndex + 1, currentBoundary))

\* C26 (as claimed): on an interactive terminal, not in append mode, whenever
\* a generated token is in the sink, written live or from the drained tail,
\* the progress indicator's interval has been cleared.
C26_IndicatorStoppedBeforeAnyToken ==
    (isTTY /\ ~append /\ Len(Written) >= 1) => flashLoop # "running"

\* C27 (as claimed): after a natural end of a stream of n tokens with lookahead
\* d and last boundary b >= 1, the live phase wrote exactly the first
\* max(0, n - d) tokens, and the sink holds them followed by exactly the tokens
\* of positions max(0, n - d) + 1 .. b without their trailing newline tokens.
C27_TailAfterLive ==
    (NaturalEnd /\ currentBoundary >= 1) =>
        LET live == Max(0, Len(produced) - bufferAhead)
        IN  /\ liveWritten = live
            /\ Written =
                 [k \in 1..live |-> TokenEntry(AllTokens[k])] \o
                 [k \in 1..Len(StripStandalone(SubSeq(AllTokens, live + 1, currentBoundary)))
                    |-> TokenEntry(AllTokens[live + k])]

====
